---- MODULE Spec2Model ----
\* A model of src/app.py: the Streamlit page of the data-analysis assistant.
\* One browser session is modelled.  Streamlit runs the script top to bottom on
\* every interaction (a "page run"); the session state survives between page
\* runs; an uncaught exception ends the page run and keeps the session state as
\* it was at the raise.  A widget reports an interaction only if the previous
\* page run rendered it.  Every remote call may succeed or raise.
EXTENDS Naturals, Sequences, FiniteSets

\* ---------------------------------------------------------------- bounds
\* remote events delivered in one analysis session (between two resets), a
\* requires_action event counting once per function-call descriptor it carries
MaxEvents == 3
\* questions typed into the chat input in one analysis session
MaxQuestions == 2

\* ------------------------------------------------------------- constants
\* ss.thread_id = None
Null == 0
\* thread.id of the thread the service creates for the analysis session
THREAD_ID == 1

NoFile == "-"
\* the files offered to the uploader, the function-call descriptors of one
\* ToolRequest: the first n of these
FileNames == <<"u1", "u2">>
GenIds == {"g1"}
RunIds == {"run_1"}
CallIds == <<"call_1", "call_2">>
Questions == {<<"q">>}
TextValues == {<<>>, <<"A">>}

PLACEHOLDER == <<"[Running data analysis...]">>
FAILURE_NOTICE == <<"[Analysis failed. Please try again.]">>

\* tool.function.name values the service may send
FnNames == {"analyze_data", "foo"}
\* tool.function.arguments values the service may send: absent, a JSON object
\* with the two keyword arguments of analyze_data, text that is not JSON
ARGS_NONE == ""
ARGS_OK == "{\"dataset_name\": \"sales\", \"question\": \"q\"}"
ARGS_MALFORMED == "{\"dataset_name\": "
ArgStrings == {ARGS_NONE, ARGS_OK, ARGS_MALFORMED}
ERROR_PAYLOAD == "{\"status\": \"error\", \"message\": \"Function name is not recognized. Please check your request structure.\"}"
ANSWER == "Analysis of sales complete. The answer to 'q' is in the generated visualizations and data."

Range(s) == {s[i] : i \in 1..Len(s)}

\* ------------------------------------------------------------- fragments
\* what data_streamer yields: a str (a sequence of text atoms, so that
\* concatenation is \o) or a PIL image (named by the file it was read from)
Str(v) == [type |-> "str", val |-> v]
Img(f) == [type |-> "image", val |-> <<f>>]

\* ---------------------------------------------------------------- events
NoRun == [id |-> "", thread_id |-> Null, tool_calls |-> <<>>]
Ev(e, t, v, f, d) == [event |-> e, ctype |-> t, value |-> v, file_id |-> f, data |-> d]
TextDelta(v) == Ev("thread.message.delta", "text", v, NoFile, NoRun)
ImageDelta(f) == Ev("thread.message.delta", "image_file", <<>>, f, NoRun)
OtherDelta == Ev("thread.message.delta", "other", <<>>, NoFile, NoRun)
RequiresAction(run) == Ev("thread.run.requires_action", "", <<>>, NoFile, run)
RunFailed == Ev("thread.run.failed", "", <<>>, NoFile, NoRun)
OtherEvent == Ev("thread.run.step.created", "", <<>>, NoFile, NoRun)

\* the tool_calls lists the service may send: 1..Len(CallIds) descriptors, the
\* i-th with call identifier CallIds[i]
Descriptors(id) == {[id |-> id, function_name |-> n, arguments |-> a] : n \in FnNames, a \in ArgStrings}
ToolCallLists ==
  UNION { { tc \in [1..n -> UNION {Descriptors(CallIds[i]) : i \in 1..n}] :
              \A i \in 1..n : tc[i].id = CallIds[i] } : n \in 1..Len(CallIds) }
Runs(tid) == {[id |-> r, thread_id |-> tid, tool_calls |-> tc] : r \in RunIds, tc \in ToolCallLists}

Events(tid) ==
  {TextDelta(v) : v \in TextValues} \cup {ImageDelta(f) : f \in GenIds}
    \cup {OtherDelta, RunFailed, OtherEvent} \cup {RequiresAction(r) : r \in Runs(tid)}

\* the messages.list pages the service may return: up to one message here,
\* by the assistant or by the user, with its attachments
ThreadMessages ==
  {<<>>} \cup {<<[role |-> r, attachments |-> <<f>>]>> : r \in {"assistant", "user"}, f \in GenIds}

\* -------------------------------------------------------- pure functions
\* json.loads on the arguments the service may send
JsonDecodes(s) == s = ARGS_OK
json_loads(s) == IF s = ARGS_OK THEN {"dataset_name", "question"} ELSE {}

\* analyze_data(**function_arguments): a TypeError unless exactly its two
\* keyword arguments are given
AnalyzeRaises(kw) == kw # {"dataset_name", "question"}
analyze_data(kw) == ANSWER

\* json.dumps(ret_val) and the decoding of an output back to its status
json_dumps_error == ERROR_PAYLOAD
DecodedStatus(out) == IF out = ERROR_PAYLOAD THEN "error" ELSE "none"

\* the body of the for loop of handle_requires_action for one descriptor:
\* what it appends to tool_outputs, or that it raises
HandleOne(tool) ==
  IF tool.arguments # ARGS_NONE /\ ~JsonDecodes(tool.arguments)
  THEN [raised |-> TRUE, out |-> <<>>]
  ELSE LET function_arguments == IF tool.arguments # ARGS_NONE THEN json_loads(tool.arguments) ELSE {}
       IN  IF tool.function_name = "analyze_data"
           THEN IF AnalyzeRaises(function_arguments)
                THEN [raised |-> TRUE, out |-> <<>>]
                ELSE [raised |-> FALSE,
                      out |-> <<[tool_call_id |-> tool.id, output |-> analyze_data(function_arguments)]>>]
           ELSE [raised |-> FALSE,
                 out |-> <<[tool_call_id |-> tool.id, output |-> json_dumps_error]>>]

RECURSIVE HandleCalls(_, _)
HandleCalls(calls, tool_outputs) ==
  IF calls = <<>> THEN [raised |-> FALSE, tool_outputs |-> tool_outputs]
  ELSE LET r == HandleOne(Head(calls))
       IN  IF r.raised THEN [raised |-> TRUE, tool_outputs |-> tool_outputs]
           ELSE HandleCalls(Tail(calls), tool_outputs \o r.out)

\* handle_requires_action(tool_request): (tool_outputs, data.thread_id, data.id)
handle_requires_action(tool_request) ==
  LET data == tool_request.data
      r == HandleCalls(data.tool_calls, <<>>)
  IN  [raised |-> r.raised, tool_outputs |-> r.tool_outputs,
       thread_id |-> data.thread_id, run_id |-> data.id]

\* faulty variant: a failed moderation call counts as flagged
moderation_endpoint_fail_closed(r) == r # "clean"

\* faulty variant: the moderation verdict is ignored
moderation_endpoint_ignored(r) == FALSE

\* moderation_endpoint(text): the remote verdict, False when the call raises
moderation_endpoint(r) == IF r = "error" THEN FALSE ELSE r = "flagged"

\* faulty variant: no try/except around client.files.delete, the first failing call
\* leaves the function
delete_files_uncaught(file_id_list, fails) ==
  [issued |-> {file_id_list[i] : i \in {j \in 1..Len(file_id_list) : \A k \in fails : j <= k}},
   raised |-> fails # {}]

\* delete_files(file_id_list), with `fails` the positions whose delete call
\* raises: the identifiers a delete call was issued for, and whether an
\* exception leaves the function
delete_files(file_id_list, fails) ==
  [issued |-> Range(file_id_list), raised |-> FALSE]

\* delete_thread(thread_id), `ok` the outcome of the remote call
delete_thread(thread_id, ok) ==
  [issued |-> thread_id, raised |-> FALSE]

\* retrieve_assistant_created_files(thread_id): the attachments of the
\* assistant's messages, [] when messages.list raises
RECURSIVE AssistantAttachments(_)
AssistantAttachments(data) ==
  IF data = <<>> THEN <<>>
  ELSE (IF Head(data).role = "assistant" THEN Head(data).attachments ELSE <<>>)
         \o AssistantAttachments(Tail(data))
retrieve_assistant_created_files(ok, data) ==
  IF ok THEN AssistantAttachments(data) ELSE <<>>

\* the default case of data_streamer: nothing yielded, the loop goes on
StepIgnored(cp) == [yield |-> <<>>, cp |-> cp, put |-> FALSE, ret |-> FALSE, file |-> NoFile]

\* faulty variant: no `return` after requires_action
data_streamer_step_no_return(response, cp) ==
  CASE response.event = "thread.message.delta" /\ response.ctype = "text" ->
         [yield |-> <<Str(response.value)>>, cp |-> TRUE, put |-> FALSE, ret |-> FALSE, file |-> NoFile]
    [] response.event = "thread.message.delta" /\ response.ctype = "image_file" ->
         [yield |-> <<Img(response.file_id)>>, cp |-> TRUE, put |-> FALSE, ret |-> FALSE,
          file |-> response.file_id]
    [] response.event = "thread.run.requires_action" ->
         [yield |-> IF ~cp THEN <<Str(PLACEHOLDER)>> ELSE <<>>, cp |-> cp, put |-> TRUE,
          ret |-> FALSE, file |-> NoFile]
    [] response.event = "thread.run.failed" ->
         [yield |-> <<Str(FAILURE_NOTICE)>>, cp |-> cp, put |-> FALSE, ret |-> TRUE, file |-> NoFile]
    [] OTHER -> StepIgnored(cp)

\* faulty variant: an image chunk does not set content_produced
data_streamer_step_image_unmarked(response, cp) ==
  CASE response.event = "thread.message.delta" /\ response.ctype = "text" ->
         [yield |-> <<Str(response.value)>>, cp |-> TRUE, put |-> FALSE, ret |-> FALSE, file |-> NoFile]
    [] response.event = "thread.message.delta" /\ response.ctype = "image_file" ->
         [yield |-> <<Img(response.file_id)>>, cp |-> cp, put |-> FALSE, ret |-> FALSE,
          file |-> response.file_id]
    [] response.event = "thread.run.requires_action" ->
         [yield |-> IF ~cp THEN <<Str(PLACEHOLDER)>> ELSE <<>>, cp |-> cp, put |-> TRUE,
          ret |-> TRUE, file |-> NoFile]
    [] response.event = "thread.run.failed" ->
         [yield |-> <<Str(FAILURE_NOTICE)>>, cp |-> cp, put |-> FALSE, ret |-> TRUE, file |-> NoFile]
    [] OTHER -> StepIgnored(cp)

\* faulty variant: run.failed is handled like requires_action (queued for the tool loop)
data_streamer_step_failed_queued(response, cp) ==
  CASE response.event = "thread.message.delta" /\ response.ctype = "text" ->
         [yield |-> <<Str(response.value)>>, cp |-> TRUE, put |-> FALSE, ret |-> FALSE, file |-> NoFile]
    [] response.event = "thread.message.delta" /\ response.ctype = "image_file" ->
         [yield |-> <<Img(response.file_id)>>, cp |-> TRUE, put |-> FALSE, ret |-> FALSE,
          file |-> response.file_id]
    [] response.event = "thread.run.requires_action" ->
         [yield |-> IF ~cp THEN <<Str(PLACEHOLDER)>> ELSE <<>>, cp |-> cp, put |-> TRUE,
          ret |-> TRUE, file |-> NoFile]
    [] response.event = "thread.run.failed" ->
         [yield |-> <<Str(FAILURE_NOTICE)>>, cp |-> cp, put |-> TRUE, ret |-> TRUE, file |-> NoFile]
    [] OTHER -> StepIgnored(cp)

\* one iteration of the for loop of data_streamer on event `response` with
\* content_produced = cp: what it yields, the new content_produced, whether the
\* event is put on tool_requests, whether the generator returns, and the file
\* it reads and records (NoFile when none)
data_streamer_step(response, cp) ==
  CASE response.event = "thread.message.delta" /\ response.ctype = "text" ->
         [yield |-> <<Str(response.value)>>, cp |-> TRUE, put |-> FALSE, ret |-> FALSE, file |-> NoFile]
    [] response.event = "thread.message.delta" /\ response.ctype = "image_file" ->
         [yield |-> <<Img(response.file_id)>>, cp |-> TRUE, put |-> FALSE, ret |-> FALSE,
          file |-> response.file_id]
    [] response.event = "thread.run.requires_action" ->
         [yield |-> IF ~cp THEN <<Str(PLACEHOLDER)>> ELSE <<>>, cp |-> cp, put |-> TRUE,
          ret |-> TRUE, file |-> NoFile]
    [] response.event = "thread.run.failed" ->
         [yield |-> <<Str(FAILURE_NOTICE)>>, cp |-> cp, put |-> FALSE, ret |-> TRUE, file |-> NoFile]
    [] OTHER -> StepIgnored(cp)

\* st.write_stream(data_streamer): str chunks are concatenated (empty ones
\* skipped) until a chunk that is no str, which flushes the text so far
RECURSIVE WriteStream(_, _, _)
WriteStream(chunks, streamed_response, written_content) ==
  LET flushed == IF streamed_response # <<>>
                 THEN Append(written_content, Str(streamed_response))
                 ELSE written_content
  IN  IF chunks = <<>> THEN flushed
      ELSE IF Head(chunks).type = "str"
           THEN WriteStream(Tail(chunks), streamed_response \o Head(chunks).val, written_content)
           ELSE WriteStream(Tail(chunks), <<>>, Append(flushed, Head(chunks)))

\* add_message_to_state_session(message): is the message appended
Appended(message) == message.type # "str" \/ Len(message.val) > 0

\* display_stream after the generator is exhausted: the messages appended to
\* ss.messages for the chunks the generator yielded
RECURSIVE AssistantMessages(_)
AssistantMessages(response) ==
  IF response = <<>> THEN <<>>
  ELSE (IF Appended(Head(response))
        THEN <<[role |-> "assistant", content |-> Head(response)]>> ELSE <<>>)
         \o AssistantMessages(Tail(response))
\* faulty variant: the messages of one stream are appended last first
display_stream_reversed(chunks) ==
  LET m == AssistantMessages(WriteStream(chunks, <<>>, <<>>))
  IN  [i \in 1..Len(m) |-> m[Len(m) + 1 - i]]

display_stream(chunks) == AssistantMessages(WriteStream(chunks, <<>>, <<>>))

\* faulty variant: the request is read but stays in the queue
QueueGet_peek(q) == [item |-> Head(q), rest |-> q]

\* tool_requests.get() on a queue that is not empty (queue.Queue is FIFO): the
\* item returned and the queue left
QueueGet(q) == [item |-> Head(q), rest |-> Tail(q)]

\* faulty variant: a thread is created in every page run
NeedsThread_always(tid) == TRUE

\* faulty variant: the thread is never created
NeedsThread_never(tid) == FALSE

\* `if not ss.thread_id`
NeedsThread(tid) == tid = Null

\* ----------------------------------------------------------------- state
VARIABLES
  \* the session state (ss.*) and the tool_requests queue kept in it
  assistant, file_uploaded, messages, thread_id, file_ids,
  assistant_created_file_ids, tool_requests,
  \* the page run: where the script is, the interaction that started it, the
  \* widgets rendered so far (at "idle": by the last page run)
  pc, trigger, widgets,
  \* the data_streamer generator on ss.stream: its local content_produced, the
  \* chunks it yielded, the events it pulled, how it ended
  content_produced, emitted, consumed, streamEnd,
  \* the locals tool_outputs, thread_id, run_id between dispatch and submit
  pending,
  \* the remote service: the events it delivered in this analysis session
  nEvents,
  \* history of the page run: the uncaught exception that ended it, the remote
  \* moderation verdict and the session state when the question arrived (both
  \* kept until the run stream is open), the remote calls issued, ToolRequests
  \* enqueued, dispatched and submitted, the request last dispatched, the last
  \* submit call, whether earlier streams of the page run yielded an image or
  \* text that is not empty
  exc, modResult, calls, turnPre, reqLog, lastReq, submitted, priorContent,
  \* history of the analysis session (since the last reset): questions asked,
  \* threads created, thread identifiers given to messages.create, file
  \* identifiers recorded, file identifiers attached to the session's thread
  nQuestions, sessionThreads, sentTo, recorded, attached,
  \* what the last reset did
  resetInfo

session == <<file_uploaded, messages, thread_id, file_ids, assistant_created_file_ids, tool_requests>>
streamer == <<content_produced, emitted, consumed, streamEnd>>
runHist == <<modResult, turnPre, reqLog, lastReq, submitted, priorContent>>
sessHist == <<nQuestions, sessionThreads, sentTo, recorded, attached>>
vars == <<assistant, session, pc, trigger, widgets, streamer, pending, nEvents,
          exc, calls, runHist, sessHist, resetInfo>>

NoPending == [tool_outputs |-> <<>>, thread_id |-> Null, run_id |-> ""]
NoSnapshot == [taken |-> FALSE, messages |-> <<>>, thread_id |-> Null, file_ids |-> <<>>,
               assistant_created_file_ids |-> <<>>, tool_requests |-> <<>>]
Snapshot == [taken |-> TRUE, messages |-> messages, thread_id |-> thread_id, file_ids |-> file_ids,
             assistant_created_file_ids |-> assistant_created_file_ids,
             tool_requests |-> tool_requests]
NoReset == [ran |-> FALSE, thread_id |-> Null, file_ids |-> <<>>, generated |-> <<>>,
            recorded |-> {}, threadDeleted |-> Null, filesDeleted |-> {}, failures |-> 0]
NoLog == [enq |-> 0, disp |-> 0, sub |-> 0]

\* the session state initialisation of lines 80-98
Init ==
  /\ assistant = FALSE
  /\ file_uploaded = FALSE /\ messages = <<>> /\ thread_id = Null /\ file_ids = <<>>
  /\ assistant_created_file_ids = <<>> /\ tool_requests = <<>>
  /\ pc = "idle" /\ trigger = "none" /\ widgets = {}
  /\ content_produced = FALSE /\ emitted = <<>> /\ consumed = <<>> /\ streamEnd = "none"
  /\ pending = NoPending
  /\ nEvents = 0
  /\ exc = "none" /\ modResult = "none" /\ calls = {} /\ turnPre = NoSnapshot
  /\ reqLog = NoLog /\ lastReq = NoRun /\ submitted = NoPending /\ priorContent = FALSE
  /\ nQuestions = 0 /\ sessionThreads = {} /\ sentTo = {} /\ recorded = {} /\ attached = {}
  /\ resetInfo = NoReset

\* an uncaught exception leaves main: the page run ends with the widgets
\* rendered so far
Uncaught(name) == exc' = name /\ pc' = "idle"

\* the generator and its locals are gone (the page run ended)
StreamerGone ==
  content_produced' = FALSE /\ emitted' = <<>> /\ consumed' = <<>> /\ streamEnd' = "none"

\* the script reaches line 318 (first run, or rerun after st.rerun()): where it
\* goes next
AfterAssistant(uploaded, tid, trig) ==
  IF ~uploaded THEN (IF trig = "upload_button" THEN "upload" ELSE "idle")
  ELSE IF NeedsThread(tid) THEN "thread" ELSE "chat"

Triggers == {"none", "upload_button", "chat_input", "reset_button"}

\* a page run starts: on a widget the last page run rendered, or on a plain
\* rerun; main() up to the file upload section (lines 269-326, 349-353)
StartRun(trig) ==
  /\ pc = "idle"
  /\ trig \in {"none"} \cup widgets
  /\ trig = "chat_input" => nQuestions < MaxQuestions
  /\ trigger' = trig
  /\ content_produced' = FALSE /\ emitted' = <<>> /\ consumed' = <<>> /\ streamEnd' = "none"
  /\ pending' = NoPending
  /\ modResult' = "none" /\ turnPre' = NoSnapshot /\ reqLog' = NoLog /\ lastReq' = NoRun
  /\ submitted' = NoPending /\ priorContent' = FALSE
  /\ resetInfo' = NoReset
  /\ \E a \in {"retrieved", "created", "raised"} :
       /\ assistant => a = "retrieved"
       /\ calls' = IF assistant THEN {}
                   ELSE IF a = "retrieved" THEN {"assistants.retrieve"}
                   ELSE {"assistants.retrieve", "assistants.create"}
       /\ IF a = "raised"
          THEN /\ Uncaught("assistants.create")
               /\ widgets' = {}
               /\ UNCHANGED assistant
          ELSE /\ assistant' = TRUE
               /\ exc' = "none"
               /\ pc' = AfterAssistant(file_uploaded, thread_id, trig)
               /\ widgets' = IF file_uploaded THEN {} ELSE {"upload_button"}
  /\ UNCHANGED <<session, nEvents, sessHist>>

\* the file identifiers of the uploads that succeeded, in upload order
RECURSIVE UploadedIds(_, _, _)
UploadedIds(i, n, oks) ==
  IF i > n THEN <<>>
  ELSE (IF i \in oks THEN <<FileNames[i]>> ELSE <<>>) \o UploadedIds(i + 1, n, oks)

\* faulty variant: the upload counts as done whatever was uploaded
UploadDone_always(ids) == TRUE

\* `if ss.file_ids:` after the upload loop
UploadDone(ids) == ids # <<>>

\* "Upload and Analyze" (lines 327-346): n files, those in oks upload
UploadFiles ==
  /\ pc = "upload"
  /\ \E n \in 1..Len(FileNames) : \E oks \in SUBSET (1..n) :
       LET ids == UploadedIds(1, n, oks)
       IN  /\ file_ids' = ids
           /\ recorded' = recorded \cup Range(ids)
           /\ IF UploadDone(ids)
              THEN /\ file_uploaded' = TRUE
                   \* st.rerun(): the script starts again, no widget triggered
                   /\ trigger' = "none"
                   /\ calls' = {}
                   /\ widgets' = {}
                   /\ pc' = AfterAssistant(TRUE, thread_id, "none")
              ELSE /\ pc' = "idle"
                   /\ calls' = calls \cup {"files.create"}
                   /\ UNCHANGED <<file_uploaded, trigger, widgets>>
  /\ UNCHANGED <<assistant, messages, thread_id, assistant_created_file_ids, tool_requests,
                 streamer, pending, nEvents, exc, runHist,
                 nQuestions, sessionThreads, sentTo, attached, resetInfo>>

\* client.beta.threads.create() (lines 356-359)
ThreadCreate ==
  /\ pc = "thread"
  /\ calls' = calls \cup {"threads.create"}
  /\ \E ok \in BOOLEAN :
       /\ IF ok
          THEN /\ thread_id' = THREAD_ID
               /\ sessionThreads' = sessionThreads \cup {THREAD_ID}
               /\ pc' = "attach"
               /\ UNCHANGED exc
          ELSE /\ Uncaught("threads.create")
               /\ UNCHANGED <<thread_id, sessionThreads>>
  /\ UNCHANGED <<assistant, file_uploaded, messages, file_ids, assistant_created_file_ids,
                 tool_requests, trigger, widgets, streamer, pending, nEvents, runHist,
                 nQuestions, sentTo, recorded, attached, resetInfo>>

\* client.beta.threads.update(...) (lines 361-365)
ThreadUpdate ==
  /\ pc = "attach"
  /\ calls' = calls \cup {"threads.update"}
  /\ \E ok \in BOOLEAN :
       IF ok THEN pc' = "chat" /\ attached' = Range(file_ids) /\ UNCHANGED exc
       ELSE Uncaught("threads.update") /\ UNCHANGED attached
  /\ UNCHANGED <<assistant, session, trigger, widgets, streamer, pending, nEvents,
                 runHist, nQuestions, sessionThreads, sentTo, recorded, resetInfo>>

\* no question and no reset: the history, the chat input and the reset
\* button are rendered and the page run ends (lines 367-379, 426-427)
EndRun ==
  /\ pc = "chat"
  /\ trigger \notin {"chat_input", "reset_button"}
  /\ pc' = "idle"
  /\ widgets' = {"chat_input", "reset_button"}
  /\ UNCHANGED <<assistant, session, trigger, streamer, pending, nEvents, exc,
                 calls, runHist, sessHist, resetInfo>>

\* a question arrives: the moderation check, then the user message is
\* appended (lines 377-390)
Moderate ==
  /\ pc = "chat"
  /\ trigger = "chat_input"
  /\ widgets' = {"chat_input"}
  /\ nQuestions' = nQuestions + 1
  /\ turnPre' = Snapshot
  /\ calls' = calls \cup {"moderations.create"}
  /\ \E question \in Questions : \E r \in {"clean", "flagged", "error"} :
       /\ modResult' = r
       /\ IF moderation_endpoint(r)
          THEN /\ pc' = "idle"
               /\ UNCHANGED messages
          ELSE /\ messages' = Append(messages, [role |-> "user", content |-> Str(question)])
               /\ pc' = "send"
  /\ UNCHANGED <<assistant, file_uploaded, thread_id, file_ids, assistant_created_file_ids,
                 tool_requests, trigger, streamer, pending, nEvents, exc,
                 reqLog, lastReq, submitted, priorContent, sessionThreads, sentTo, recorded,
                 attached, resetInfo>>

\* client.beta.threads.messages.create(thread_id=ss.thread_id, ...) (lines 392-397)
MessagesCreate ==
  /\ pc = "send"
  /\ calls' = calls \cup {"messages.create"}
  /\ sentTo' = sentTo \cup {thread_id}
  /\ \E ok \in BOOLEAN :
       IF ok THEN pc' = "open" /\ UNCHANGED exc
       ELSE Uncaught("messages.create")
  /\ UNCHANGED <<assistant, session, trigger, widgets, streamer, pending, nEvents,
                 runHist, nQuestions, sessionThreads, recorded, attached, resetInfo>>

\* client.beta.threads.runs.stream(...) is opened and display_stream sets
\* ss.stream (lines 399-405, 251)
RunsStream ==
  /\ pc = "open"
  /\ calls' = calls \cup {"runs.stream"}
  /\ \E ok \in BOOLEAN :
       IF ok
       THEN /\ pc' = "stream"
            /\ content_produced' = FALSE /\ emitted' = <<>> /\ consumed' = <<>>
            /\ streamEnd' = "active"
            \* the question is behind: its verdict and the snapshot taken when it
            \* arrived are kept only up to here
            /\ modResult' = "none" /\ turnPre' = NoSnapshot
            /\ UNCHANGED exc
       ELSE /\ Uncaught("runs.stream")
            /\ UNCHANGED <<streamer, modResult, turnPre>>
  /\ UNCHANGED <<assistant, session, trigger, widgets, pending, nEvents,
                 reqLog, lastReq, submitted, priorContent, sessHist, resetInfo>>

\* display_stream after st.write_stream returned (lines 259-266): the chunks
\* become transcript messages and main goes on to the tool loop
FinishStream(chunks, how) ==
  /\ messages' = messages \o display_stream(chunks)
  /\ streamEnd' = how
  /\ pc' = "tools"
  /\ UNCHANGED exc

\* what an event takes of the MaxEvents budget
Size(response) ==
  IF response.event = "thread.run.requires_action" THEN Len(response.data.tool_calls) ELSE 1

\* one step of `for response in ss.stream` in data_streamer (lines 212-242),
\* driven by st.write_stream: the next remote event, the end of the stream, or
\* an exception of the iterator
DataStreamer ==
  /\ pc = "stream"
  /\ \/ \E response \in Events(thread_id) : \E readOk \in BOOLEAN :
          LET st == data_streamer_step(response, content_produced)
              chunks == emitted \o st.yield
          IN  /\ nEvents + Size(response) <= MaxEvents
              /\ st.file = NoFile => readOk
              /\ nEvents' = nEvents + Size(response)
              /\ IF ~readOk
                 THEN \* client.files.content(...).read() raises inside the generator
                      /\ Uncaught("files.content")
                      /\ StreamerGone
                      /\ UNCHANGED <<messages, assistant_created_file_ids, tool_requests,
                                     reqLog, recorded>>
                 ELSE /\ consumed' = Append(consumed, response)
                      /\ emitted' = chunks
                      /\ content_produced' = st.cp
                      /\ assistant_created_file_ids' =
                           IF st.file # NoFile THEN Append(assistant_created_file_ids, st.file)
                           ELSE assistant_created_file_ids
                      /\ recorded' = IF st.file # NoFile THEN recorded \cup {st.file} ELSE recorded
                      /\ tool_requests' = IF st.put THEN Append(tool_requests, response)
                                          ELSE tool_requests
                      /\ reqLog' = IF st.put THEN [reqLog EXCEPT !.enq = @ + 1] ELSE reqLog
                      /\ IF st.ret THEN FinishStream(chunks, "returned")
                         ELSE UNCHANGED <<messages, streamEnd, pc, exc>>
     \/ \* the remote iterator is exhausted
        /\ FinishStream(emitted, "exhausted")
        /\ UNCHANGED <<assistant_created_file_ids, tool_requests, content_produced, emitted,
                       consumed, nEvents, reqLog, recorded>>
     \/ \* the remote iterator raises
        /\ Uncaught("stream")
        /\ StreamerGone
        /\ UNCHANGED <<messages, assistant_created_file_ids, tool_requests, nEvents, reqLog,
                       recorded>>
  \* the dispatched request and the submit call are remembered until the
  \* stream they opened is read
  /\ lastReq' = NoRun /\ submitted' = NoPending
  /\ UNCHANGED <<assistant, file_uploaded, thread_id, file_ids, trigger, widgets, pending,
                 calls, modResult, turnPre, priorContent,
                 nQuestions, sessionThreads, sentTo, attached, resetInfo>>

\* `while not tool_requests.empty()`: tool_requests.get() and
\* handle_requires_action on it (lines 408-411)
HandleToolRequest ==
  /\ pc = "tools"
  /\ tool_requests # <<>>
  /\ LET got == QueueGet(tool_requests)
         r == handle_requires_action(got.item)
     IN  /\ tool_requests' = got.rest
         /\ lastReq' = got.item.data
         /\ reqLog' = [reqLog EXCEPT !.disp = @ + 1]
         /\ IF r.raised
            THEN Uncaught("handle_requires_action") /\ StreamerGone /\ UNCHANGED pending
            ELSE /\ pending' = [tool_outputs |-> r.tool_outputs, thread_id |-> r.thread_id,
                                run_id |-> r.run_id]
                 /\ pc' = "submit"
                 /\ UNCHANGED <<exc, streamer>>
  /\ UNCHANGED <<assistant, file_uploaded, messages, thread_id, file_ids,
                 assistant_created_file_ids, trigger, widgets, nEvents,
                 calls, modResult, turnPre, submitted, priorContent, sessHist,
                 resetInfo>>

\* is one of the events a text or image delta (a chunk of content)
HasContent(events) ==
  \E i \in 1..Len(events) :
    events[i].event = "thread.message.delta" /\ events[i].ctype \in {"text", "image_file"}
\* is one of them a delta with an image or with text that is not empty
HasVisibleContent(events) ==
  \E i \in 1..Len(events) :
    /\ events[i].event = "thread.message.delta"
    /\ \/ events[i].ctype = "image_file"
       \/ events[i].ctype = "text" /\ events[i].value # <<>>

\* client.beta.threads.runs.submit_tool_outputs_stream(...) is opened and
\* display_stream sets ss.stream to it (lines 412-417)
SubmitToolOutputs ==
  /\ pc = "submit"
  /\ calls' = calls \cup {"submit_tool_outputs_stream"}
  /\ submitted' = pending
  /\ pending' = NoPending
  /\ \E ok \in BOOLEAN :
       IF ok
       THEN /\ reqLog' = [reqLog EXCEPT !.sub = @ + 1]
            /\ priorContent' = (priorContent \/ HasVisibleContent(consumed))
            /\ pc' = "stream"
            /\ content_produced' = FALSE /\ emitted' = <<>> /\ consumed' = <<>>
            /\ streamEnd' = "active"
            /\ UNCHANGED exc
       ELSE /\ Uncaught("submit_tool_outputs_stream")
            /\ StreamerGone
            /\ UNCHANGED <<reqLog, priorContent>>
  /\ UNCHANGED <<assistant, session, trigger, widgets, nEvents, modResult, turnPre,
                 lastReq, sessHist, resetInfo>>

\* the queue is empty: the generated files are listed and offered for
\* download, the reset button is rendered, the page run ends (lines 419-427)
RetrieveFiles ==
  /\ pc = "tools"
  /\ tool_requests = <<>>
  /\ calls' = calls \cup {"messages.list"}
  /\ \E ok \in BOOLEAN : \E data \in ThreadMessages :
       LET ids == retrieve_assistant_created_files(ok, data)
       IN  /\ ~ok => data = <<>>
           /\ assistant_created_file_ids' = ids
           /\ recorded' = recorded \cup Range(ids)
  /\ pc' = "idle"
  /\ widgets' = {"chat_input", "reset_button"}
  /\ StreamerGone
  /\ UNCHANGED <<assistant, file_uploaded, messages, thread_id, file_ids, tool_requests,
                 trigger, pending, nEvents, exc, runHist,
                 nQuestions, sessionThreads, sentTo, attached, resetInfo>>

\* "Start New Analysis" (lines 426-443): the deletes, then the session fields
\* are cleared and st.rerun() renders the upload section
ResetAnalysis ==
  /\ pc = "chat"
  /\ trigger = "reset_button"
  /\ \E thrOk \in BOOLEAN :
     \E f1 \in SUBSET (1..Len(file_ids)) :
     \E f2 \in SUBSET (1..Len(assistant_created_file_ids)) :
       LET dt == IF thread_id # Null THEN delete_thread(thread_id, thrOk)
                 ELSE [issued |-> Null, raised |-> FALSE]
           d1 == IF ~dt.raised /\ file_ids # <<>> THEN delete_files(file_ids, f1)
                 ELSE [issued |-> {}, raised |-> FALSE]
           d2 == IF ~dt.raised /\ ~d1.raised /\ assistant_created_file_ids # <<>>
                 THEN delete_files(assistant_created_file_ids, f2)
                 ELSE [issued |-> {}, raised |-> FALSE]
           raised == dt.raised \/ d1.raised \/ d2.raised
       IN  /\ thread_id = Null => thrOk
           /\ resetInfo' = [ran |-> TRUE, thread_id |-> thread_id, file_ids |-> file_ids,
                            generated |-> assistant_created_file_ids, recorded |-> recorded,
                            threadDeleted |-> dt.issued,
                            filesDeleted |-> d1.issued \cup d2.issued,
                            failures |-> (IF thrOk THEN 0 ELSE 1) + Cardinality(f1) + Cardinality(f2)]
           /\ IF raised
              THEN /\ Uncaught("delete")
                   /\ widgets' = {"chat_input"}
                   /\ UNCHANGED <<file_uploaded, messages, thread_id, file_ids,
                                  assistant_created_file_ids, trigger, sessionThreads, sentTo,
                                  recorded, attached, nQuestions, nEvents>>
              ELSE /\ file_uploaded' = FALSE
                   /\ messages' = <<>>
                   /\ thread_id' = Null
                   /\ file_ids' = <<>>
                   /\ assistant_created_file_ids' = <<>>
                   /\ sessionThreads' = {} /\ sentTo' = {} /\ recorded' = {}
                   /\ attached' = {}
                   /\ nQuestions' = 0 /\ nEvents' = 0
                   \* st.rerun(): the script starts again, no widget triggered
                   /\ trigger' = "none"
                   /\ pc' = AfterAssistant(FALSE, Null, "none")
                   /\ widgets' = {"upload_button"}
                   /\ UNCHANGED exc
  /\ UNCHANGED <<assistant, tool_requests, streamer, pending, calls, runHist>>

Next ==
  \/ \E trig \in Triggers : StartRun(trig)
  \/ UploadFiles
  \/ ThreadCreate
  \/ ThreadUpdate
  \/ EndRun
  \/ Moderate
  \/ MessagesCreate
  \/ RunsStream
  \/ DataStreamer
  \/ HandleToolRequest
  \/ SubmitToolOutputs
  \/ RetrieveFiles
  \/ ResetAnalysis

Spec == Init /\ [][Next]_vars

\* the steps of a page run that has started: the script runs on by itself,
\* whereas a new page run waits for the user
RunStep ==
  \/ UploadFiles
  \/ ThreadCreate
  \/ ThreadUpdate
  \/ EndRun
  \/ Moderate
  \/ MessagesCreate
  \/ RunsStream
  \/ DataStreamer
  \/ HandleToolRequest
  \/ SubmitToolOutputs
  \/ RetrieveFiles
  \/ ResetAnalysis
\* a started page run is not suspended for ever
FairSpec == Spec /\ WF_vars(RunStep)

\* ---------------------------------------------------------------- claims
\* the chunks data_streamer yields for a sequence of text and image deltas
RECURSIVE Fragments(_)
Fragments(events) ==
  IF events = <<>> THEN <<>>
  ELSE LET e == Head(events)
       IN  (IF e.event = "thread.message.delta" /\ e.ctype = "text" THEN <<Str(e.value)>>
            ELSE IF e.event = "thread.message.delta" /\ e.ctype = "image_file"
                 THEN <<Img(e.file_id)>>
                 ELSE <<>>)
           \o Fragments(Tail(events))
\* the str chunks of a chunk sequence, in order
RECURSIVE TextChunks(_)
TextChunks(chunks) ==
  IF chunks = <<>> THEN <<>>
  ELSE (IF Head(chunks).type = "str" THEN <<Head(chunks)>> ELSE <<>>) \o TextChunks(Tail(chunks))
Front(q) == SubSeq(q, 1, Len(q) - 1)
Last(q) == q[Len(q)]
LastEventIs(name) == consumed # <<>> /\ Last(consumed).event = name

\* C1: every thread identifier given to messages.create since the last reset is
\* not null and was returned by a successful threads.create of this analysis
\* session.
C1_MessageOnlyToCreatedThread ==
  \A t \in sentTo : t # Null /\ t \in sessionThreads
\* a message was submitted, in a page run that did not create the thread itself
C1_Witness ==
  pc = "open" /\ sentTo = {THREAD_ID} /\ "threads.create" \notin calls

\* C2: every ToolRequest enqueued in a page run is still queued, is being
\* submitted, or had its outputs submitted; when the page run has ended, all of
\* them had their outputs submitted.
C2_EveryRequestSubmitted ==
  /\ reqLog.enq = reqLog.sub + Len(tool_requests) + (IF pc = "submit" THEN 1 ELSE 0)
  /\ pc = "idle" => reqLog.enq = reqLog.sub

\* C3: a reset from a state with a thread, uploaded files and generated files
\* leaves the transcript empty, the thread identifier null, both file lists
\* empty and the uploaded flag false, whatever delete calls failed.
C3_ResetClears ==
  (resetInfo.ran /\ resetInfo.thread_id # Null /\ resetInfo.file_ids # <<>>
     /\ resetInfo.generated # <<>>)
    => /\ messages = <<>>
       /\ thread_id = Null
       /\ file_ids = <<>>
       /\ assistant_created_file_ids = <<>>
       /\ ~file_uploaded
\* such a reset in which the thread delete and every file delete failed
C3_Witness ==
  /\ resetInfo.ran /\ resetInfo.thread_id # Null
  /\ Len(resetInfo.file_ids) = 2 /\ resetInfo.generated # <<>>
  /\ resetInfo.failures = 1 + Len(resetInfo.file_ids) + Len(resetInfo.generated)
  /\ messages = <<>>

\* C4: after the moderation check reported the question flagged, the page run
\* has ended, the transcript, thread identifier, file lists and ToolRequest
\* queue are as they were when the question arrived, and neither
\* messages.create nor a run stream was issued in that page run.
C4_FlaggedTurnAborted ==
  modResult = "flagged"
    => /\ pc = "idle"
       /\ turnPre.taken
       /\ messages = turnPre.messages
       /\ thread_id = turnPre.thread_id
       /\ file_ids = turnPre.file_ids
       /\ assistant_created_file_ids = turnPre.assistant_created_file_ids
       /\ tool_requests = turnPre.tool_requests
       /\ calls \cap {"messages.create", "runs.stream", "submit_tool_outputs_stream"} = {}
\* a flagged question asked after an answered one
C4_Witness ==
  modResult = "flagged" /\ Len(messages) >= 2 /\ assistant_created_file_ids # <<>>

\* C5: when data_streamer has pulled a requires_action event, it is the first
\* such event and the last event pulled from the stream; the chunks yielded
\* before it are those of the preceding deltas in order (so the text chunks are
\* exactly the preceding text deltas' values); after it only the placeholder, if
\* any, is yielded; the generator has returned; and exactly that event was put on
\* the queue.
C5_StopsAtRequiresAction ==
  LastEventIs("thread.run.requires_action")
    => LET prior == Front(consumed)
           before == SubSeq(emitted, 1, Len(Fragments(prior)))
       IN  /\ \A i \in 1..Len(prior) :
                prior[i].event \notin {"thread.run.requires_action", "thread.run.failed"}
           /\ before = Fragments(prior)
           /\ TextChunks(before) = TextChunks(Fragments(prior))
           /\ emitted \in {before, Append(before, Str(PLACEHOLDER))}
           /\ streamEnd = "returned" /\ pc # "stream"
           /\ pc = "tools" => tool_requests = <<Last(consumed)>>
           /\ Len(tool_requests) <= 1
\* the stream [text, text, requires_action]: two chunks, one queued request
C5_Witness ==
  /\ Len(consumed) = 3 /\ LastEventIs("thread.run.requires_action")
  /\ consumed[1] = TextDelta(<<"A">>) /\ consumed[2] = TextDelta(<<>>)
  /\ emitted = <<Str(<<"A">>), Str(<<>>)>>
  /\ pc = "tools" /\ Len(tool_requests) = 1

\* the remote calls of the claim C6
RemoteCalls ==
  {"threads.create", "threads.update", "messages.create", "runs.stream", "stream",
   "submit_tool_outputs_stream", "files.content", "delete"}
\* C6: no failure of a remote call (other than at client creation) leaves main
\* as an uncaught exception.
C6_RemoteFailuresCaught == exc \notin RemoteCalls

\* C7: every file identifier recorded since the last reset is still held in one
\* of the two lists, and a reset issues a delete call for the thread and for
\* every file identifier recorded since the previous reset.
C7_RecordedFilesDeleted ==
  /\ recorded \subseteq Range(file_ids) \cup Range(assistant_created_file_ids)
  /\ resetInfo.ran
       => /\ resetInfo.recorded \subseteq resetInfo.filesDeleted
          /\ resetInfo.threadDeleted = resetInfo.thread_id

\* the outputs the claim C8 expects for a ToolRequest: one per descriptor, in
\* descriptor order, each with its descriptor's call identifier
OutputIds(outs) == [i \in 1..Len(outs) |-> outs[i].tool_call_id]
DescriptorIds(run) == [i \in 1..Len(run.tool_calls) |-> run.tool_calls[i].id]
\* C8: for the ToolRequest last dispatched: a descriptor with an unregistered
\* function name yields, without raising, an output that decodes to status
\* "error"; the dispatcher returns one output per descriptor, in descriptor
\* order, with the request's thread and run identifiers; and the submit call is
\* made with exactly these.
C8_DispatchOutputs ==
  lastReq # NoRun
    => /\ \A i \in 1..Len(lastReq.tool_calls) :
            lastReq.tool_calls[i].function_name # "analyze_data"
              => /\ ~HandleOne(lastReq.tool_calls[i]).raised
                 /\ Len(HandleOne(lastReq.tool_calls[i]).out) = 1
                 /\ DecodedStatus(HandleOne(lastReq.tool_calls[i]).out[1].output) = "error"
       /\ pc = "submit"
            => /\ OutputIds(pending.tool_outputs) = DescriptorIds(lastReq)
               /\ pending.thread_id = lastReq.thread_id
               /\ pending.run_id = lastReq.id
       /\ submitted # NoPending
            => /\ OutputIds(submitted.tool_outputs) = DescriptorIds(lastReq)
               /\ submitted.thread_id = lastReq.thread_id
               /\ submitted.run_id = lastReq.id

\* did data_streamer yield the placeholder for the requires_action it pulled last
PlaceholderYielded == emitted = Append(Fragments(Front(consumed)), Str(PLACEHOLDER))
NothingYielded == emitted = Fragments(Front(consumed))
\* C9 as stated: on requires_action the placeholder is yielded exactly when no
\* text or image chunk was yielded before in the run, counting the earlier
\* streams of the page run's run; otherwise nothing is yielded for the event.
C9_PlaceholderPerRun ==
  LastEventIs("thread.run.requires_action")
    => IF priorContent \/ HasContent(Front(consumed)) THEN NothingYielded ELSE PlaceholderYielded
\* C9 as amended: on requires_action the placeholder is yielded exactly when no
\* text or image chunk was yielded before from the stream being read; otherwise
\* nothing is yielded for the event.
C9_PlaceholderPerStream ==
  LastEventIs("thread.run.requires_action")
    => IF HasContent(Front(consumed)) THEN NothingYielded /\ ~PlaceholderYielded
       ELSE PlaceholderYielded
\* a follow-up stream that starts with requires_action after an earlier stream
\* of the same run yielded content: the placeholder is yielded
C9_Witness ==
  /\ LastEventIs("thread.run.requires_action") /\ Len(consumed) = 1
  /\ priorContent /\ PlaceholderYielded /\ reqLog.sub = 1

\* C10: when data_streamer has pulled a run.failed event, it is the last event
\* pulled from the stream, exactly one failure notice was yielded, after the
\* chunks of the preceding deltas, the generator has returned, the event put
\* nothing on the queue, and the tool loop has nothing to dispatch, so that the
\* page run goes on to the file listing without opening another stream.
C10_FailedTerminates ==
  LastEventIs("thread.run.failed")
    => /\ \A i \in 1..(Len(consumed) - 1) :
            consumed[i].event \notin {"thread.run.requires_action", "thread.run.failed"}
       /\ emitted = Append(Fragments(Front(consumed)), Str(FAILURE_NOTICE))
       /\ streamEnd = "returned"
       /\ tool_requests = <<>>
       /\ reqLog.enq = reqLog.sub
       /\ pc \in {"tools", "idle"}
\* run.failed after a text delta, in a follow-up stream
C10_Witness ==
  /\ consumed = <<TextDelta(<<"A">>), RunFailed>> /\ pc = "tools" /\ reqLog.sub = 1

\* C11: the requests dispatched in a page run are exactly those that were
\* enqueued and are no longer queued, so none is dispatched twice; no stream is
\* being read while a request is queued; and when a follow-up stream is about
\* to be opened, the request it answers has left the queue and the outputs to
\* submit are those the dispatcher computed for it.
C11_DispatchedOnceBeforeFollowUp ==
  /\ reqLog.disp + Len(tool_requests) = reqLog.enq
  /\ reqLog.sub <= reqLog.disp
  /\ pc = "stream" => tool_requests = <<>>
  /\ pc = "submit"
       => /\ tool_requests = <<>>
          /\ reqLog.disp = reqLog.sub + 1
          /\ ~HandleCalls(lastReq.tool_calls, <<>>).raised
          /\ pending.tool_outputs = HandleCalls(lastReq.tool_calls, <<>>).tool_outputs
\* the second request of a page run was dispatched, after the follow-up stream
\* of the first one was read
C11_Witness ==
  pc = "submit" /\ reqLog.disp = 2 /\ reqLog.sub = 1 /\ Len(consumed) = 2

\* C12: threads.create is called only while no thread was created since the
\* last reset, so at most one thread is created per analysis session; a thread
\* once created stays the session's thread until the reset, also when the
\* attach-files update failed; and a reset from a state with a thread
\* identifier issued the delete call for that thread.
C12_OneThreadPerSession ==
  /\ pc = "thread" => sessionThreads = {} /\ thread_id = Null
  /\ sessionThreads # {} => sessionThreads = {thread_id} /\ thread_id # Null
  /\ thread_id # Null => sessionThreads = {thread_id}
  /\ (resetInfo.ran /\ resetInfo.thread_id # Null)
       => resetInfo.threadDeleted = resetInfo.thread_id
\* the second question of a session whose attach-files update failed, in a
\* page run that created no thread
C12_Witness ==
  /\ pc = "send" /\ nQuestions = 2 /\ sessionThreads = {THREAD_ID} /\ attached = {}
  /\ "threads.create" \notin calls

\* C13: a thread identifier that is not null implies the uploaded flag and a
\* non-empty list of uploaded files; the thread is created and the files are
\* attached only with the upload finished; and whenever a page run has passed
\* the thread block with a thread, the files attached to the thread are exactly
\* the uploaded ones.
C13_ThreadHasUploadedFiles ==
  /\ thread_id # Null => file_uploaded /\ file_ids # <<>>
  /\ pc \in {"thread", "attach"} => file_uploaded /\ file_ids # <<>>
  /\ attached \in {{}, Range(file_ids)}
  /\ (thread_id # Null /\ pc \in {"chat", "send", "open", "stream", "tools", "submit"})
       => attached = Range(file_ids)

\* the text atoms and images of a sequence of chunks, in order
RECURSIVE FlatChunks(_)
FlatChunks(chunks) ==
  IF chunks = <<>> THEN <<>> ELSE Head(chunks).val \o FlatChunks(Tail(chunks))
\* the entries a step appended to the transcript
NewMessages == SubSeq(messages', Len(messages) + 1, Len(messages'))
\* C14: a step that changes the transcript is the reset, which empties it, or
\* the arrival of a question, which appends the user's message, or the end of
\* a stream, which appends assistant messages carrying what the stream
\* consumer yielded, in the order it yielded it; and until the first stream of
\* a turn has ended the user's message is the last entry, so it precedes
\* every assistant fragment of the turn.
C14_TranscriptAppendOnly ==
  /\ [](pc \in {"send", "open"} \/ (pc = "stream" /\ reqLog.sub = 0)
          => messages # <<>> /\ Last(messages).role = "user")
  /\ [][messages' # messages
          => \/ pc = "chat" /\ trigger = "reset_button" /\ messages' = <<>>
             \/ /\ pc = "chat" /\ trigger = "chat_input"
                /\ \E q \in Questions :
                     messages' = Append(messages, [role |-> "user", content |-> Str(q)])
             \/ /\ pc = "stream"
                /\ Len(messages') > Len(messages)
                /\ SubSeq(messages', 1, Len(messages)) = messages
                /\ \A i \in 1..Len(NewMessages) : NewMessages[i].role = "assistant"
                /\ FlatChunks([i \in 1..Len(NewMessages) |-> NewMessages[i].content])
                     = FlatChunks(emitted')]_vars
\* a turn whose stream yielded text, an image and text: four entries
C14_Witness ==
  /\ pc = "tools" /\ emitted = <<Str(<<"A">>), Img("g1"), Str(<<"A">>)>>
  /\ Len(messages) = 4 /\ messages[1].role = "user" /\ messages[3].content = Img("g1")

\* the part of C15 on termination: the stream consumer yields at most one chunk
\* per event it pulled, a stream being read is eventually left, and a page run
\* that has started eventually ends
C15_Terminates ==
  /\ [](Len(emitted) <= Len(consumed))
  /\ (pc = "stream") ~> (pc # "stream")
  /\ (pc # "idle") ~> (pc = "idle")
\* C15: the stream consumer terminates with a finite output, every turn
\* eventually completes, and when the turn is over one follow-up stream was
\* opened for every ToolRequest enqueued in it.
C15_OneFollowUpPerRequest ==
  /\ C15_Terminates
  /\ [](reqLog.sub <= reqLog.enq /\ (pc = "idle" => reqLog.sub = reqLog.enq))

\* C16: the queue never holds more than one ToolRequest, and it holds one only
\* between the end of a stream and the dispatch that follows it in the tool
\* loop: it is empty when no page run is in progress, when a turn starts, when
\* the reset runs and after it, also after a page run that an exception ended.
C16_QueueAtMostOne ==
  /\ Len(tool_requests) <= 1
  /\ pc # "tools" => tool_requests = <<>>
  /\ resetInfo.ran => tool_requests = <<>>
\* a turn that enqueued a request has ended because the submit call raised
C16_Witness ==
  /\ pc = "idle" /\ exc = "submit_tool_outputs_stream" /\ reqLog.enq = 1
  /\ tool_requests = <<>>

\* C17: the uploaded flag is set exactly when the list of uploaded file
\* identifiers is not empty; a page run that ended in the upload section after
\* upload calls left the flag false and the list empty; a reset left both
\* cleared.
C17_FlagIffFilesUploaded ==
  /\ file_uploaded <=> file_ids # <<>>
  /\ (pc = "idle" /\ "files.create" \in calls) => ~file_uploaded /\ file_ids = <<>>
  /\ (resetInfo.ran /\ exc = "none") => ~file_uploaded /\ file_ids = <<>>
\* the upload of the first of two files failed and the second one was uploaded
\* and recorded
C17_Witness ==
  file_uploaded /\ file_ids = <<FileNames[2]>> /\ pc = "thread"

\* C18: a question whose moderation call failed is handled like one reported
\* clean: the user's message is appended to the transcript as it was when the
\* question arrived, the page run goes on to messages.create with the session's
\* thread, and it ends early only if that call or the opening of the run
\* stream raises; a question is rejected (the page run over with the transcript
\* as it was) only when the call reported it flagged.
C18_ModerationFailsOpen ==
  /\ modResult \in {"clean", "error"}
       => /\ turnPre.taken
          /\ \E q \in Questions :
               messages = Append(turnPre.messages, [role |-> "user", content |-> Str(q)])
          /\ \/ pc = "send" /\ "messages.create" \notin calls
             \/ pc = "open" /\ "messages.create" \in calls /\ thread_id \in sentTo
             \/ pc = "idle" /\ exc \in {"messages.create", "runs.stream"}
  /\ (turnPre.taken /\ pc = "idle" /\ messages = turnPre.messages) => modResult = "flagged"
\* the moderation call failed and the question was submitted to the thread
C18_Witness ==
  /\ modResult = "error" /\ pc = "open" /\ "messages.create" \in calls
  /\ Last(messages).role = "user" /\ sentTo = {THREAD_ID}

====
